---- MODULE Spec2Model ----
(***************************************************************************)
(* Tree-state engine of the solution explorer: SolutionTreeItemCollection  *)
(* (src/src/SolutionTreeItemCollection.ts) and SolutionExplorerProvider    *)
(* (src/unnamed/part_002).  One action per handler or per stretch of an    *)
(* async function between two suspension points of the event loop.         *)
(***************************************************************************)
EXTENDS Integers, Sequences, FiniteSets, TLC

\* ------------------------------------------------------------------ bounds
\* Build passes (calls of createSolutionItems) one behaviour may start.
MaxBuilds == 2
\* Root-level getChildren() callers that may await one in-flight pass.
MaxCallers == 2
\* Host events (tree view, commands, file system) one behaviour may deliver.
MaxHostEvents == 2
\* Operations one behaviour of the collection by itself may perform.
MaxCollOps == 3
\* Levels below the roots down to which one restore session is followed.
MaxLevel == 12

\* ------------------------------------------------------------- identities
\* Ids are strings, modelled as sequences of characters so that
\* String.prototype.startsWith is a computation.  NoId is the falsy id
\* (undefined or "").
NoId == <<>>
A == <<"a">>
AB == <<"a", "/", "b">>
ABC == <<"a", "/", "b", "/", "c">>
AX == <<"a", "/", "x">>
AQ == <<"a", "/", "?">>
Z == <<"z">>
ABc == <<"a", "/", "b", "c">>
Back == <<"a", "/", "@">>

\* Logical nodes (keys) of the solution, in sibling order.  AQ is a node
\* that carries no id; Back is a node whose only child is its own parent.
KeyOrder == <<A, AB, ABC, AQ, AX, Back, Z>>
Keys == {KeyOrder[i] : i \in 1..Len(KeyOrder)}

ParentOf(k) ==
  IF k \in {AB, AQ, AX, Back} THEN A
  ELSE IF k = ABC THEN AB
  ELSE NoId

\* TreeItem.id of the node built for key k.
IdOf(k) == IF k = AQ THEN NoId ELSE k

\* The solution on disk in the provider specification.
MainWorld == {A, AB, ABC, AQ, Z}
\* A cyclic tree: a -> a/@ -> a -> ...
LoopWorld == {A, Back, Z}

\* The file an item stands for, and the files selectFile is asked for: F is
\* found twice under the first root and at the second root, H nowhere.
F == <<"f">>
H == <<"h">>
FilePaths == {F, H}
PathOf(k) == IF k \in {ABC, AQ, Z} THEN F ELSE NoId
\* Worlds the collection specification draws from: parent-closed key sets.
Worlds ==
  {w \in SUBSET (Keys \ {Back}) : \A k \in w : ParentOf(k) = NoId \/ ParentOf(k) \in w}
\* Ids looked up in the collection specification.
QueryIds == {A, AB, ABC, AX, Z, ABc, <<"q">>}

\* A TreeItem instance: <<pass that built it, key>>.  A rebuild makes new
\* instances with the same ids.
NoItem == <<0, NoId>>
KeyOf(n) == n[2]
ItemId(n) == IdOf(n[2])

\* id.startsWith(p)
StartsWith(id, p) == Len(p) <= Len(id) /\ SubSeq(id, 1, Len(p)) = p

\* --------------------------------------------------------------- TreeItem
\* The children getChildren() of n materializes, in order.
KidsOf(n, w) ==
  LET ks == SelectSeq(KeyOrder, LAMBDA k : k \in w /\ ParentOf(k) = n[2])
  IN  IF n[2] = Back THEN <<<<n[1], ParentOf(Back)>>>>
      ELSE [i \in 1..Len(ks) |-> <<n[1], ks[i]>>]

\* TreeItem.getChildren(): cached after the first success; a first call may
\* fail (fail: the items whose load fails now).
GetChildren(n, ld, fail, w) ==
  IF n \in ld THEN [threw |-> FALSE, kids |-> KidsOf(n, w), ld |-> ld]
  ELSE IF n \in fail THEN [threw |-> TRUE, kids |-> <<>>, ld |-> ld]
  ELSE [threw |-> FALSE, kids |-> KidsOf(n, w), ld |-> ld \cup {n}]

\* TreeItem.search(path) over kids: depth first, an item before its
\* children, materializing the children of every item passed:
\* [found, ld, threw].
RECURSIVE SearchIn(_, _, _, _, _)
SearchIn(kids, path, ld, fail, w) ==
  IF kids = <<>> THEN [found |-> NoItem, ld |-> ld, threw |-> FALSE]
  ELSE LET child == Head(kids) IN
       IF PathOf(child[2]) = path THEN [found |-> child, ld |-> ld, threw |-> FALSE]
       ELSE LET g == GetChildren(child, ld, fail, w) IN
            IF g.threw THEN [found |-> NoItem, ld |-> g.ld, threw |-> TRUE]
            ELSE LET r == SearchIn(g.kids, path, g.ld, fail, w)
                 IN  IF r.found # NoItem \/ r.threw THEN r
                     ELSE SearchIn(Tail(kids), path, r.ld, fail, w)

\* Every item under kids in depth-first order, an item before its children.
RECURSIVE DepthFirst(_, _)
DepthFirst(kids, w) ==
  IF kids = <<>> THEN <<>>
  ELSE <<Head(kids)>> \o DepthFirst(KidsOf(Head(kids), w), w) \o DepthFirst(Tail(kids), w)

\* The match nearest to the root, whatever the order of the walk.
SearchShallowest(n, path, ld, fail, w) ==
  LET all == DepthFirst(<<n>>, w)
      hits == {i \in DOMAIN all : PathOf(all[i][2]) = path}
  IN  IF hits = {} THEN SearchIn(<<n>>, path, ld, fail, w)
      ELSE [found |-> all[CHOOSE i \in hits : \A j \in hits : Len(all[i][2]) <= Len(all[j][2])],
            ld |-> ld, threw |-> FALSE]
Search(n, path, ld, fail, w) == SearchIn(<<n>>, path, ld, fail, w)

\* The default collapsibleState a TreeItem is built with.
DefaultState(k, w) ==
  IF k = Back \/ \E c \in w : ParentOf(c) = k THEN "collapsed" ELSE "none"

\* ------------------------------------------------------------- Collection
\* children: TreeItem[] | undefined
Unbuilt == [built |-> FALSE, list |-> <<>>]
Built(list) == [built |-> TRUE, list |-> list]

Length(c) == IF c.built THEN Len(c.list) ELSE 0
\* getItem(index): throws unless children[index] is there.
GetItem(c, index) == IF index < Length(c) THEN c.list[index + 1] ELSE NoItem
HasChildrenNever(c) == FALSE
HasChildren(c) == c.built

\* The value an undefined children field has as an iterable: for...of over
\* it throws.  No collection holds this list.
Undefined == <<NoItem>>
IterationThrows(v) == v = Undefined

\* get items(): this.children || []
ItemsNoDefault(c) == IF c.built THEN c.list ELSE Undefined
Items(c) == IF c.built THEN c.list ELSE <<>>

ResetEmptyList(c) == Built(<<>>)
Reset(c) == Unbuilt

\* addSolution: the push after the two awaits.
AddSolution(c, item) ==
  IF ~c.built THEN Built(<<item>>) ELSE Built(Append(c.list, item))

\* A search that descends into children lists not materialized yet.
RECURSIVE GetInternalAnyChildTreeItemById(_, _, _, _)
GetInternalAnyChildTreeItemById(id, kids, ld, w) ==
  IF kids = <<>> THEN NoItem
  ELSE LET child == Head(kids) IN
       IF ItemId(child) = id THEN child
       ELSE LET found == GetInternalAnyChildTreeItemById(id, KidsOf(child, w), ld, w)
            IN  IF found # NoItem THEN found
                ELSE GetInternalAnyChildTreeItemById(id, Tail(kids), ld, w)

\* getInternalLoadedChildTreeItemById: depth first over loaded children only.
RECURSIVE GetInternalLoadedChildTreeItemById(_, _, _, _)
GetInternalLoadedChildTreeItemById(id, kids, ld, w) ==
  IF kids = <<>> THEN NoItem
  ELSE LET child == Head(kids) IN
       IF ItemId(child) = id THEN child
       ELSE LET found == GetInternalLoadedChildTreeItemById(
                           id, IF child \in ld THEN KidsOf(child, w) ELSE <<>>, ld, w)
            IN  IF found # NoItem THEN found
                ELSE GetInternalLoadedChildTreeItemById(id, Tail(kids), ld, w)

GetLoadedChildTreeItemById(c, id, ld, w) ==
  IF ~c.built THEN NoItem
  ELSE GetInternalLoadedChildTreeItemById(id, c.list, ld, w)

\* findAndExpandInternal.  st = [visited, ld, found, threw] is threaded
\* through the loop; visited holds child.id || '(no id)'.
\* visited.push(child.id || '(no id)'): NoId stands for '(no id)'.
PushNamed(visited, child) ==
  IF ItemId(child) = NoId THEN visited ELSE Append(visited, ItemId(child))
Push(visited, child) == Append(visited, ItemId(child))

RECURSIVE FindAndExpandInternal(_, _, _, _, _)
FindAndExpandInternal(id, kids, st, fail, w) ==
  IF kids = <<>> THEN st
  ELSE LET child == Head(kids)
           st1 == [st EXCEPT !.visited = Push(@, child)]
       IN  IF ItemId(child) = id THEN [st1 EXCEPT !.found = child]
           ELSE LET g == GetChildren(child, st1.ld, fail, w) IN
                IF g.threw THEN [st1 EXCEPT !.threw = TRUE]
                ELSE LET st2 == FindAndExpandInternal(
                                  id, g.kids, [st1 EXCEPT !.ld = g.ld], fail, w)
                     IN  IF st2.found # NoItem \/ st2.threw THEN st2
                         ELSE FindAndExpandInternal(id, Tail(kids), st2, fail, w)

FindAndExpandTreeItemById(c, id, ld, fail, w) ==
  LET st0 == [visited |-> <<>>, ld |-> ld, found |-> NoItem, threw |-> FALSE]
  IN  IF ~c.built THEN st0 ELSE FindAndExpandInternal(id, c.list, st0, fail, w)

\* collectAllItems.  st = [all, ld, threw].
RECURSIVE CollectAllItems(_, _, _, _)
CollectAllItems(kids, st, fail, w) ==
  IF kids = <<>> THEN st
  ELSE LET child == Head(kids)
           st1 == [st EXCEPT !.all = Append(@, child)]
           g == GetChildren(child, st1.ld, fail, w)
       IN  IF g.threw THEN [st1 EXCEPT !.threw = TRUE]
           ELSE LET st2 == CollectAllItems(g.kids, [st1 EXCEPT !.ld = g.ld], fail, w)
                IN  IF st2.threw THEN st2
                    ELSE CollectAllItems(Tail(kids), st2, fail, w)

\* The sort key of findClosestParentByIdPrefix's comparator.
PrefixKeyShortest(id, n) ==
  IF ItemId(n) # NoId /\ StartsWith(id, ItemId(n)) THEN 100 - Len(ItemId(n)) ELSE 0
PrefixKey(id, n) ==
  IF ItemId(n) # NoId /\ StartsWith(id, ItemId(n)) THEN Len(ItemId(n)) ELSE 0

\* Array.prototype.sort with comparator key(b) - key(a): stable, descending.
RECURSIVE InsertByKey(_, _, _)
InsertByKey(x, sorted, id) ==
  IF sorted = <<>> THEN <<x>>
  ELSE IF PrefixKey(id, Head(sorted)) >= PrefixKey(id, x)
       THEN <<Head(sorted)>> \o InsertByKey(x, Tail(sorted), id)
       ELSE <<x>> \o sorted

RECURSIVE SortByPrefix(_, _)
SortByPrefix(all, id) ==
  IF all = <<>> THEN <<>>
  ELSE InsertByKey(all[Len(all)], SortByPrefix(SubSeq(all, 1, Len(all) - 1), id), id)

\* Array.prototype.find(item => item.id && id.startsWith(item.id))
RECURSIVE FindPrefixed(_, _)
FindPrefixed(all, id) ==
  IF all = <<>> THEN NoItem
  ELSE IF ItemId(Head(all)) # NoId /\ StartsWith(id, ItemId(Head(all))) THEN Head(all)
       ELSE FindPrefixed(Tail(all), id)

\* findClosestParentByIdPrefix: [found, ld, threw].
FindClosestParentByIdPrefix(c, id, ld, fail, w) ==
  IF ~c.built THEN [found |-> NoItem, ld |-> ld, threw |-> FALSE]
  ELSE LET st == CollectAllItems(c.list, [all |-> <<>>, ld |-> ld, threw |-> FALSE], fail, w)
       IN  IF st.threw THEN [found |-> NoItem, ld |-> st.ld, threw |-> TRUE]
           ELSE [found |-> FindPrefixed(SortByPrefix(st.all, id), id),
                 ld |-> st.ld, threw |-> FALSE]

\* The items of the tree under kids that exist as objects: the roots and the
\* children of every loaded item.
RECURSIVE LoadedItems(_, _, _)
LoadedItems(kids, ld, w) ==
  IF kids = <<>> THEN {}
  ELSE {Head(kids)}
       \cup (IF Head(kids) \in ld THEN LoadedItems(KidsOf(Head(kids), w), ld, w) ELSE {})
       \cup LoadedItems(Tail(kids), ld, w)

\* Every item the tree under kids would hold once fully materialized.
RECURSIVE AllItems(_, _)
AllItems(kids, w) ==
  IF kids = <<>> THEN {}
  ELSE {Head(kids)} \cup AllItems(KidsOf(Head(kids), w), w) \cup AllItems(Tail(kids), w)

\* ------------------------------------------------------------------ state
VARIABLES
  world,                   \* keys of the solution on disk
  children,                \* SolutionTreeItemCollection.children
  collapsibleState,        \* TreeItem.collapsibleState of every instance
  loaded,                  \* instances whose children list is materialized
  expandedItemIds,         \* provider.expandedItemIds
  lastRevealedItemId,      \* provider.lastRevealedItemId
  workspaceState,          \* the two persisted keys
  initPromise,             \* provider._initPromise: 0 or the pending pass
  build,                   \* createSolutionItems() calls, by pass
  awaiting,                \* root getChildren() callers awaiting _initPromise
  req,                     \* restoreExpandedStateAndScroll() calls, by pass
  loaderActivePromise,     \* static loaderActivePromise: 0 or a session
  sess,                    \* the async session bodies, by starting pass
  restoringScrollPosition, \* provider.restoringScrollPosition
  scroll,                  \* the restoreScrollPosition() call past its guard
  treeView,                \* provider.treeView is defined
  sel,                     \* the selectFile() call between two roots
  hostFaults,              \* the status bar API may throw
  eEpoch,                  \* passes started when expandedItemIds last changed
  hostEvents,              \* host events (collection operations) so far
  lookup,                  \* the last collection lookup and its result
  hasWorkspaceRoots,       \* solutionFinder.hasWorkspaceRoots
  out                      \* what the last step returned and called on the host

treeVars == <<children, collapsibleState, loaded>>
expVars == <<expandedItemIds, lastRevealedItemId, workspaceState, eEpoch>>
buildVars == <<initPromise, build, awaiting>>
restoreVars == <<req, loaderActivePromise, sess>>
scrollVars == <<restoringScrollPosition, scroll>>
envVars == <<world, treeView, hostFaults, lookup, hasWorkspaceRoots, sel>>
vars == <<treeVars, expVars, buildVars, restoreVars, scrollVars, envVars, hostEvents,
          out>>

Passes == 1..MaxBuilds
Instances == Passes \X Keys

\* const BATCH_SIZE = 20
BATCH_SIZE == 20

NoBuild == [pc |-> "none", paths |-> <<>>, i |-> 0]
NoReq == [st |-> "none", how |-> "none", on |-> 0]
NoSess == [pc |-> "none", batch |-> <<>>, queue |-> <<>>, next |-> <<>>,
           err |-> FALSE, touched |-> {}, wasReset |-> FALSE, gcFailed |-> FALSE,
           level |-> 0]
NoOwner == [kind |-> "none", b |-> 0]
NoScroll == [pc |-> "idle", owner |-> NoOwner, lastId |-> NoId, item |-> NoItem]
\* A step that returns nothing to the host and calls nothing on it.  A
\* root-level getChildren() answers "noRoots", "built", "started" or
\* "joined"; a settling pass answers its callers "resolved" or "rejected".
NoCall == [how |-> "none", pass |-> 0, items |-> <<>>]
Called(op, item, flag) == [op |-> op, item |-> item, flag |-> flag]
NoOut ==
  [answer |-> NoCall,
   call |-> [op |-> "none", item |-> NoItem, flag |-> FALSE],
   fired |-> <<>>,
   lookups |-> <<>>,
   reveals |-> <<>>,
   by |-> 0,
   callers |-> 0]
NoSel == [pc |-> "idle", i |-> 0, path |-> NoId]
NoLookup ==
  [op |-> "none", id |-> NoId, roots |-> <<>>, found |-> NoItem, threw |-> FALSE,
   visited |-> <<>>]

Started == {b \in Passes : build[b].pc # "none"}
InFlight == {b \in Passes : build[b].pc \in {"find", "add"}}
Running == {b \in Passes : sess[b].pc \in {"expand", "validate", "scroll", "hide"}}
Ended == {b \in Passes : sess[b].pc \in {"resolved", "rejected"}}

\* What findSolutions() may return.
Enumerations == {<<>>, <<A, Z>>}

\* The values the persisted keys may hold when the extension starts.
StoredStates ==
  {[expanded |-> {}, last |-> ABC],
   [expanded |-> {AB}, last |-> AX],
   [expanded |-> {A, AB, Z}, last |-> NoId]}

\* Items dropped by reset() are unreachable once no session queue and no
\* pending reveal holds them; their fields are then forgotten.
SeqItems(q) == {q[i] : i \in DOMAIN q}
SeqPasses(q) == {q[i][1] : i \in DOMAIN q}
LivePasses(c, ss, sc) ==
  SeqPasses(c.list) \cup {sc.item[1]}
  \cup UNION {SeqPasses(ss[b].batch \o ss[b].queue \o ss[b].next) : b \in Passes}
DropLoaded(ld, live) == {n \in ld : n[1] \in live}
DropState(cs, live, w) ==
  [n \in Instances |-> IF n[1] \in live THEN cs[n] ELSE DefaultState(KeyOf(n), w)]

InitCommon ==
  /\ children = Unbuilt
  /\ loaded = {}
  /\ lastRevealedItemId = NoId
  /\ initPromise = 0
  /\ build = [b \in Passes |-> NoBuild]
  /\ awaiting = 0
  /\ req = [b \in Passes |-> NoReq]
  /\ loaderActivePromise = 0
  /\ sess = [b \in Passes |-> NoSess]
  /\ restoringScrollPosition = FALSE
  /\ scroll = NoScroll
  /\ eEpoch = 0
  /\ hostEvents = 0
  /\ lookup = NoLookup
  /\ sel = NoSel
  /\ out = NoOut

\* The provider after construction and register().
InitProvider ==
  /\ InitCommon
  /\ world = MainWorld
  /\ collapsibleState = [n \in Instances |-> DefaultState(KeyOf(n), MainWorld)]
  /\ workspaceState \in StoredStates
  /\ expandedItemIds = workspaceState.expanded
  /\ treeView = TRUE
  /\ hasWorkspaceRoots \in BOOLEAN

Init == InitProvider /\ hostFaults = FALSE
InitHostFaults == InitProvider /\ hostFaults = TRUE

\* --------------------------------------------------------- getChildren()
\* if (!this._initPromise)
InitPendingNever == FALSE
InitPending == initPromise # 0

\* createSolutionItems() up to its first await (findSolutions()).
StartBuild(b) ==
  /\ build' = [build EXCEPT ![b] = [pc |-> "find", paths |-> <<>>, i |-> 0]]
  /\ initPromise' = b

\* One more event from the host (tree view, event aggregator, commands).
HostEvent ==
  /\ treeView
  /\ hostEvents < MaxHostEvents
  /\ hostEvents' = hostEvents + 1

\* getChildren(undefined) without workspace roots: resolves with [].
GetChildrenNoRoots ==
  /\ HostEvent
  /\ ~hasWorkspaceRoots
  /\ out' = [NoOut EXCEPT !.answer = [how |-> "noRoots", pass |-> 0, items |-> <<>>]]
  /\ UNCHANGED <<treeVars, expVars, buildVars, restoreVars, scrollVars, envVars>>

\* getChildren(undefined) on an unbuilt collection.
GetChildrenRoot ==
  /\ treeView
  /\ hasWorkspaceRoots
  /\ ~HasChildren(children)
  /\ awaiting < MaxCallers
  /\ awaiting' = awaiting + 1
  /\ IF ~InitPending
     THEN /\ Cardinality(Started) < MaxBuilds
          /\ children' = Reset(children)
          /\ StartBuild(Cardinality(Started) + 1)
          /\ out' = [NoOut EXCEPT !.answer =
                 [how |-> "started", pass |-> Cardinality(Started) + 1, items |-> <<>>]]
     ELSE /\ out' = [NoOut EXCEPT !.answer =
                 [how |-> "joined", pass |-> initPromise, items |-> <<>>]]
          /\ UNCHANGED <<children, build, initPromise>>
  /\ UNCHANGED <<collapsibleState, loaded, expVars, restoreVars, scrollVars, envVars,
                 hostEvents>>

\* getChildren(undefined) on a built collection: resolves with items.
GetChildrenBuilt ==
  /\ HostEvent
  /\ hasWorkspaceRoots
  /\ HasChildren(children)
  /\ out' = [NoOut EXCEPT !.answer =
         [how |-> "built", pass |-> 0, items |-> Items(children)]]
  /\ UNCHANGED <<treeVars, expVars, buildVars, restoreVars, scrollVars, envVars>>

\* The promise of pass b settles: .finally clears _initPromise, then every
\* awaiting caller's .then runs (how: "resolved" with items, or "rejected").
SettleBuildKeepsHandle(b, how, items) ==
  /\ UNCHANGED <<initPromise, awaiting>>
  /\ out' = NoOut
SettleBuild(b, how, items) ==
  /\ initPromise' = IF initPromise = b THEN 0 ELSE initPromise
  /\ awaiting' = 0
  /\ out' = [NoOut EXCEPT !.answer = [how |-> how, pass |-> b, items |-> items],
                          !.callers = awaiting]

\* findSolutions() returns or throws.
BuildEnumerated(b) ==
  /\ build[b].pc = "find"
  /\ \/ \E paths \in Enumerations :
          IF paths = <<>>
          THEN /\ build' = [build EXCEPT ![b].pc = "done"]
               /\ SettleBuild(b, "resolved", <<>>)
          ELSE /\ build' = [build EXCEPT ![b] = [pc |-> "add", paths |-> paths, i |-> 0]]
               /\ out' = NoOut
               /\ UNCHANGED <<initPromise, awaiting>>
     \/ /\ build' = [build EXCEPT ![b].pc = "failed"]
        /\ SettleBuild(b, "rejected", <<>>)
  /\ UNCHANGED <<treeVars, expVars, restoreVars, scrollVars, envVars, hostEvents>>

\* addSolution(paths[i]) returns or throws; after the last one the timer of
\* restoreExpandedStateAndScroll is set and the pass returns items.
BuildAdd(b) ==
  /\ build[b].pc = "add"
  /\ \/ /\ children' = AddSolution(children, <<b, build[b].paths[build[b].i + 1]>>)
        /\ IF build[b].i + 1 = Len(build[b].paths)
           THEN /\ build' = [build EXCEPT ![b].pc = "done", ![b].i = @ + 1]
                /\ req' = [req EXCEPT ![b].st = "timer"]
                /\ SettleBuild(b, "resolved", Items(children'))
           ELSE /\ build' = [build EXCEPT ![b].i = @ + 1]
                /\ out' = NoOut
                /\ UNCHANGED <<req, initPromise, awaiting>>
     \/ /\ build' = [build EXCEPT ![b].pc = "failed"]
        /\ SettleBuild(b, "rejected", <<>>)
        /\ UNCHANGED <<children, req>>
  /\ UNCHANGED <<collapsibleState, loaded, expVars, loaderActivePromise, sess,
                 scrollVars, envVars, hostEvents>>

\* ------------------------------------------------ restoreScrollPosition()
\* The call up to its first await: [flag, scroll, returned].
ScrollBeginReentrant(owner) ==
  LET lastId == IF lastRevealedItemId # NoId THEN lastRevealedItemId
                ELSE workspaceState.last
  IN  IF ~treeView \/ lastId = NoId
      THEN [flag |-> FALSE, scroll |-> scroll, returned |-> TRUE]
      ELSE [flag |-> TRUE,
            scroll |-> [pc |-> "delay", owner |-> owner, lastId |-> lastId,
                        item |-> NoItem],
            returned |-> FALSE]
ScrollBegin(owner) ==
  LET lastId == IF lastRevealedItemId # NoId THEN lastRevealedItemId
                ELSE workspaceState.last
  IN  IF ~treeView \/ restoringScrollPosition \/ lastId = NoId
      THEN [flag |-> restoringScrollPosition, scroll |-> scroll, returned |-> TRUE]
      ELSE [flag |-> TRUE,
            scroll |-> [pc |-> "delay", owner |-> owner, lastId |-> lastId,
                        item |-> NoItem],
            returned |-> FALSE]

\* The items whose first getChildren() may fail during one lookup.
FailSets == {{}} \cup {{n} : n \in AllItems(children.list, world) \ loaded}

\* The awaiting caller resumes after restoreScrollPosition() returned.
ScrollReturnsTo(owner, touchedNow) ==
  /\ sess' = IF owner.kind = "session"
             THEN [sess EXCEPT ![owner.b].pc = "hide",
                               ![owner.b].touched = @ \cup {<<"focus", n>> : n \in touchedNow}]
             ELSE sess
  /\ req' = IF owner.kind = "direct"
            THEN [req EXCEPT ![owner.b].st = "done"]
            ELSE req

\* A lookup made on the collection and a reveal requested from the tree view.
Looked(op, id, r) == [op |-> op, id |-> id, found |-> r.found, threw |-> r.threw]
Reveal(item, select, focus) == [item |-> item, select |-> select, focus |-> focus]

\* if (!item): the fallback lookup is made.
NeedsFallbackAlways(r1) == ~r1.threw
NeedsFallback(r1) == ~r1.threw /\ r1.found = NoItem

\* After the 300 ms delay: the two lookups and the reveal call.
ScrollLookup ==
  /\ scroll.pc = "delay"
  /\ \E fail \in FailSets :
       LET r1 == FindAndExpandTreeItemById(children, scroll.lastId, loaded, fail, world)
           r2 == IF NeedsFallback(r1)
                 THEN FindClosestParentByIdPrefix(children, scroll.lastId, r1.ld, fail, world)
                 ELSE [found |-> r1.found, ld |-> r1.ld, threw |-> r1.threw]
           hit == ~r2.threw /\ r2.found # NoItem
       IN  /\ loaded' = r2.ld
           /\ out' = [NoOut EXCEPT
                 !.call = Called("restoreScrollPosition", NoItem, treeView),
                 !.lookups = <<Looked("findAndExpand", scroll.lastId, r1)>>
                             \o (IF NeedsFallback(r1)
                                 THEN <<Looked("findClosest", scroll.lastId, r2)>>
                                 ELSE <<>>),
                 !.reveals = IF hit /\ treeView
                             THEN <<Reveal(r2.found, FALSE, FALSE)>> ELSE <<>>]
           /\ IF hit /\ treeView
              THEN /\ scroll' = [scroll EXCEPT !.pc = "reveal", !.item = r2.found]
                   /\ sess' = IF scroll.owner.kind = "session"
                              THEN [sess EXCEPT ![scroll.owner.b].touched =
                                      @ \cup {<<"focus", n>> : n \in r2.ld \ loaded}]
                              ELSE sess
                   /\ UNCHANGED <<restoringScrollPosition, req>>
              ELSE /\ scroll' = NoScroll
                   /\ restoringScrollPosition' = FALSE
                   /\ ScrollReturnsTo(scroll.owner, r2.ld \ loaded)
  /\ UNCHANGED <<children, collapsibleState, expVars, buildVars, loaderActivePromise,
                 envVars, hostEvents>>

\* treeView.reveal() settles; finally clears the flag.
ScrollRevealed ==
  /\ scroll.pc = "reveal"
  /\ scroll' = NoScroll
  /\ restoringScrollPosition' = FALSE
  /\ ScrollReturnsTo(scroll.owner, {})
  /\ loaded' = DropLoaded(loaded, LivePasses(children, sess', NoScroll))
  /\ collapsibleState' =
       DropState(collapsibleState, LivePasses(children, sess', NoScroll), world)
  /\ UNCHANGED <<children, expVars, buildVars, loaderActivePromise, envVars, hostEvents>>
  /\ out' = NoOut

\* ---------------------------------------- restoreExpandedStateAndScroll()
\* if (SolutionExplorerProvider.loaderActivePromise)
LoaderBusyNever == FALSE
LoaderBusy == loaderActivePromise # 0

\* await SolutionExplorerProvider.loaderActivePromise, on the joining path:
\* the call is suspended until the promise settles.
JoinSuspendsNever(p) == FALSE
JoinSuspends(p) == sess[p].pc \notin {"resolved", "rejected"}

\* showLoader() / the returned hideLoader() may throw only with hostFaults.
IndicatorOutcomes == IF hostFaults THEN {TRUE, FALSE} ELSE {TRUE}

\* queue.splice(0, BATCH_SIZE)
SpliceBatch(q) == SubSeq(q, 1, IF Len(q) < BATCH_SIZE THEN Len(q) ELSE BATCH_SIZE)
SpliceRest(q) == SubSeq(q, BATCH_SIZE + 1, Len(q))

\* The session body from showLoader() to the first batch.
SessionSeedUnexpanded == [NoSess EXCEPT !.pc = "validate"]
SessionSeed ==
  LET q == Items(children)
  IN  IF IterationThrows(q) THEN [NoSess EXCEPT !.pc = "hide", !.err = TRUE]
      ELSE [NoSess EXCEPT !.pc = IF q = <<>> THEN "validate" ELSE "expand",
                          !.batch = SpliceBatch(q), !.queue = SpliceRest(q)]

\* The setTimeout callback of createSolutionItems.
TimerFire(b) ==
  /\ req[b].st = "timer"
  /\ IF LoaderBusy
     THEN /\ req' = [req EXCEPT ![b] =
                 [st |-> IF JoinSuspends(loaderActivePromise) THEN "waiting" ELSE "done",
                  how |-> "joined", on |-> loaderActivePromise]]
          /\ UNCHANGED <<loaderActivePromise, sess, restoringScrollPosition, scroll>>
     ELSE IF expandedItemIds = {}
     THEN LET r == ScrollBegin([kind |-> "direct", b |-> b])
          IN  /\ req' = [req EXCEPT ![b] =
                     [st |-> IF r.returned THEN "done" ELSE "direct",
                      how |-> "direct", on |-> 0]]
              /\ restoringScrollPosition' = r.flag
              /\ scroll' = r.scroll
              /\ UNCHANGED <<loaderActivePromise, sess>>
     ELSE \E shown \in IndicatorOutcomes :
            /\ loaderActivePromise' = b
            /\ sess' = [sess EXCEPT ![b] =
                   IF shown THEN SessionSeed ELSE [NoSess EXCEPT !.pc = "rejected"]]
            /\ req' = [req EXCEPT ![b] =
                   [st |-> IF shown THEN "own" ELSE "done", how |-> "own", on |-> b]]
            /\ UNCHANGED <<restoringScrollPosition, scroll>>
  /\ UNCHANGED <<treeVars, expVars, buildVars, envVars, hostEvents>>
  /\ out' = NoOut

\* if (item.id && expandedIds.has(item.id))
ShouldExpandAlways(item) == TRUE
ShouldExpandAnyId(item) == ItemId(item) # NoId
ShouldExpand(item) == ItemId(item) # NoId /\ ItemId(item) \in expandedItemIds

\* for (const child of children) if (child && child.id) nextQueue.push(...)
EnqueueNone(kids) == <<>>
Enqueue(kids) == SelectSeq(kids, LAMBDA c : ItemId(c) # NoId)

\* let children = []; try { children = await item.getChildren(); } catch {}
EnqueuedChildrenAnyway(item, g) == KidsOf(item, world)
EnqueuedChildren(item, g) == IF g.threw THEN <<>> ELSE g.kids

\* The getChildren() calls made on one item of the batch.
Materialized(item, first, hit, g1, g2) ==
  (IF first THEN <<Looked("getChildren", ItemId(item), [found |-> item, threw |-> g1.threw])>>
   ELSE <<>>)
  \o (IF hit THEN <<Looked("getChildren", ItemId(item), [found |-> item, threw |-> g2.threw])>>
      ELSE <<>>)

\* The session body reads expandedItemIds once, before the indicator is
\* shown, and assigns none of the expansion fields.
ExpansionCleared ==
  /\ expandedItemIds' = {}
  /\ UNCHANGED <<lastRevealedItemId, workspaceState, eEpoch>>
ExpansionKept == UNCHANGED expVars

\* One item of the batch; after the last one of a batch, the yield and
\* queue.push(...nextQueue), and the next splice.
SessionStep(b) ==
  /\ sess[b].pc = "expand"
  /\ sess[b].level < MaxLevel
  /\ \E fail1 \in BOOLEAN, fail2 \in BOOLEAN :
       LET s == sess[b]
           item == Head(s.batch)
           hit == ShouldExpand(item)
           first == hit /\ collapsibleState[item] # "expanded"
           canFail == hit /\ item \notin loaded
           g1 == IF first
                 THEN GetChildren(item, loaded, IF fail1 THEN {item} ELSE {}, world)
                 ELSE [threw |-> FALSE, kids |-> <<>>, ld |-> loaded]
           g2 == IF hit
                 THEN GetChildren(item, g1.ld, IF fail2 THEN {item} ELSE {}, world)
                 ELSE [threw |-> FALSE, kids |-> <<>>, ld |-> g1.ld]
           next == s.next \o Enqueue(EnqueuedChildren(item, g2))
           batch == Tail(s.batch)
           queue == IF batch = <<>> THEN s.queue \o next ELSE s.queue
       IN  /\ fail1 => first /\ canFail
           /\ fail2 => canFail
           /\ out' = [NoOut EXCEPT !.call = Called("expandItem", item, hit),
                                   !.lookups = Materialized(item, first, hit, g1, g2),
                                   !.by = b]
           /\ sess' = [sess EXCEPT ![b] =
                [s EXCEPT !.pc = IF batch = <<>> /\ queue = <<>> THEN "validate"
                                 ELSE "expand",
                          !.batch = IF batch = <<>> THEN SpliceBatch(queue) ELSE batch,
                          !.queue = IF batch = <<>> THEN SpliceRest(queue) ELSE queue,
                          !.next = IF batch = <<>> THEN <<>> ELSE next,
                          !.level = IF batch = <<>> THEN @ + 1 ELSE @,
                          !.touched = IF hit THEN @ \cup {<<"expand", item>>} ELSE @,
                          !.gcFailed = @ \/ g2.threw]]
           /\ collapsibleState' =
                DropState(IF first THEN [collapsibleState EXCEPT ![item] = "expanded"]
                          ELSE collapsibleState,
                          LivePasses(children, sess', scroll), world)
           /\ loaded' = DropLoaded(g2.ld, LivePasses(children, sess', scroll))
  /\ ExpansionKept
  /\ UNCHANGED <<children, buildVars, req, loaderActivePromise, scrollVars,
                 envVars, hostEvents>>

\* TreeItem.validateTreeIds(root) over the current roots: a duplicate id is
\* logged, nothing is thrown and nothing is changed.
ValidateTreeIdsThrows(roots) == FALSE

\* The validation loop, then restoreScrollPosition() up to its first await.
SessionValidate(b) ==
  /\ sess[b].pc = "validate"
  /\ IF IterationThrows(Items(children)) \/ ValidateTreeIdsThrows(Items(children))
     THEN /\ sess' = [sess EXCEPT ![b].pc = "hide", ![b].err = TRUE]
          /\ UNCHANGED <<restoringScrollPosition, scroll>>
     ELSE LET r == ScrollBegin([kind |-> "session", b |-> b])
          IN  /\ sess' = [sess EXCEPT ![b].pc = IF r.returned THEN "hide" ELSE "scroll"]
              /\ restoringScrollPosition' = r.flag
              /\ scroll' = r.scroll
  /\ UNCHANGED <<treeVars, expVars, buildVars, req, loaderActivePromise, envVars,
                 hostEvents>>
  /\ out' = NoOut

\* finally { if (hideLoader) await hideLoader(); loaderActivePromise = null; }
\* and, once the session promise has settled, every await on it resumes.
SessionHide(b) ==
  /\ sess[b].pc = "hide"
  /\ \E hidden \in IndicatorOutcomes :
       /\ loaderActivePromise' = IF hidden THEN 0 ELSE loaderActivePromise
       /\ sess' = [sess EXCEPT ![b] =
              [@ EXCEPT !.pc = IF hidden /\ ~sess[b].err THEN "resolved" ELSE "rejected",
                        !.batch = <<>>, !.queue = <<>>, !.next = <<>>, !.touched = {},
                        !.level = 0]]
       /\ req' = [r \in Passes |->
              IF req[r].st \in {"waiting", "own"} /\ req[r].on = b
              THEN [req[r] EXCEPT !.st = "done"] ELSE req[r]]
  /\ ExpansionKept
  /\ UNCHANGED <<treeVars, buildVars, scrollVars, envVars, hostEvents>>
  /\ out' = NoOut

\* ---------------------------------------------------------- host events
\* The items the tree view can show: those of the current collection.
Visible == LoadedItems(children.list, loaded, world)

\* onDidChangeVisibility(visible): restoreScrollPosition(), not awaited.
VisibilityEvent ==
  /\ HostEvent
  /\ LET r == ScrollBegin([kind |-> "vis", b |-> 0])
     IN  /\ restoringScrollPosition' = r.flag
         /\ scroll' = r.scroll
         /\ out' = [NoOut EXCEPT !.call = Called("visible", NoItem, r.returned)]
  /\ UNCHANGED <<treeVars, expVars, buildVars, restoreVars, envVars>>

\* The collection becomes c; a reset is seen by the sessions in flight.
SetCollection(c) ==
  /\ children' = c
  /\ sess' = [b \in Passes |->
        IF b \in Running /\ ~c.built THEN [sess[b] EXCEPT !.wasReset = TRUE] ELSE sess[b]]
  /\ loaded' = DropLoaded(loaded, LivePasses(children', sess', scroll))
  /\ collapsibleState' =
       DropState(collapsibleState, LivePasses(children', sess', scroll), world)

\* solutionTreeItemCollection.reset()
ResetCollection == SetCollection(Reset(children))

\* refresh(item), item = NoItem for no argument: the collection afterwards
\* and the arguments _onDidChangeTreeData.fire was called with.
RefreshSilent(c, item) ==
  [children |-> IF item = NoItem THEN Reset(c) ELSE c, fired |-> <<>>]
Refresh(c, item) ==
  [children |-> IF item = NoItem THEN Reset(c) ELSE c, fired |-> <<item>>]

\* The handler the host called and its argument.

\* onSolutionEvent: reset(); refresh().
SolutionEvent ==
  /\ HostEvent
  /\ LET r == Refresh(Reset(children), NoItem)
     IN  /\ SetCollection(r.children)
         /\ out' = [NoOut EXCEPT !.call = Called("solutionEvent", NoItem, TRUE),
                                 !.fired = r.fired]
  /\ UNCHANGED <<expVars, buildVars, req, loaderActivePromise, scrollVars, envVars>>

\* if (this.solutionFinder.isWorkspaceSolutionFile(fileEvent.path))
FileEventAppliesAlways(isWorkspaceSolutionFile) == TRUE
FileEventApplies(isWorkspaceSolutionFile) == isWorkspaceSolutionFile

\* onFileEvent: reset(); refresh() if the path is a workspace solution file.
FileEvent ==
  /\ HostEvent
  /\ \E isWorkspaceSolutionFile \in BOOLEAN :
       IF FileEventApplies(isWorkspaceSolutionFile)
       THEN LET r == Refresh(Reset(children), NoItem)
            IN  /\ SetCollection(r.children)
                /\ out' = [NoOut EXCEPT
                             !.call = Called("fileEvent", NoItem, isWorkspaceSolutionFile),
                             !.fired = r.fired]
       ELSE /\ out' = [NoOut EXCEPT
                         !.call = Called("fileEvent", NoItem, isWorkspaceSolutionFile)]
            /\ UNCHANGED <<treeVars, sess>>
  /\ UNCHANGED <<expVars, buildVars, req, loaderActivePromise, scrollVars, envVars>>

\* refresh(): no item.
RefreshAll ==
  /\ HostEvent
  /\ LET r == Refresh(children, NoItem)
     IN  /\ SetCollection(r.children)
         /\ out' = [NoOut EXCEPT !.call = Called("refresh", NoItem, FALSE),
                                 !.fired = r.fired]
  /\ UNCHANGED <<expVars, buildVars, req, loaderActivePromise, scrollVars, envVars>>

\* refresh(item) for an item of the tree.
RefreshItem(n) ==
  /\ HostEvent
  /\ n \in SeqItems(children.list)
  /\ LET r == Refresh(children, n)
     IN  /\ SetCollection(r.children)
         /\ out' = [NoOut EXCEPT !.call = Called("refresh", n, FALSE),
                                 !.fired = r.fired]
  /\ UNCHANGED <<expVars, buildVars, req, loaderActivePromise, scrollVars, envVars>>

\* unregister(): reset(), subscriptions and tree view disposed.
Unregister ==
  /\ HostEvent
  /\ ResetCollection
  /\ treeView' = FALSE
  /\ UNCHANGED <<expVars, buildVars, req, loaderActivePromise, scrollVars, world,
                 hostFaults, lookup, hasWorkspaceRoots, sel>>
  /\ out' = NoOut

\* getChildren(element): element.getChildren().
GetChildrenOf(n) ==
  /\ HostEvent
  /\ n \in Visible
  /\ collapsibleState[n] # "none"
  /\ \E fail \in {{}, {n}} : loaded' = GetChildren(n, loaded, fail, world).ld
  /\ UNCHANGED <<children, collapsibleState, expVars, buildVars, restoreVars,
                 scrollVars, envVars>>
  /\ out' = NoOut

\* The expanded-id set after an expand / collapse handler ran.
\* workspaceState.update(EXPANDED_IDS_KEY, Array.from(this.expandedItemIds))
StoredExpandedStale(ids) == workspaceState.expanded
StoredExpanded(ids) == ids

SetExpanded(ids) ==
  /\ expandedItemIds' = ids
  /\ workspaceState' = [workspaceState EXCEPT !.expanded = StoredExpanded(ids)]
  /\ eEpoch' = IF ids # expandedItemIds THEN Cardinality(Started) ELSE eEpoch

\* this.expandedItemIds.add(ev.element.id)
WithExpanded(ids, n) == ids \cup {ItemId(n)}
\* this.expandedItemIds.delete(ev.element.id)
WithoutSubtree(ids, n) == {id \in ids : ~StartsWith(id, ItemId(n))}
WithoutCollapsed(ids, n) == ids \ {ItemId(n)}

\* onDidExpandElement
ExpandEvent(n) ==
  /\ HostEvent
  /\ n \in Visible
  /\ IF ItemId(n) # NoId
     THEN SetExpanded(WithExpanded(expandedItemIds, n))
     ELSE UNCHANGED <<expandedItemIds, workspaceState, eEpoch>>
  /\ UNCHANGED <<treeVars, lastRevealedItemId, buildVars, restoreVars, scrollVars,
                 envVars>>
  /\ out' = [NoOut EXCEPT !.call = Called("expand", n, ItemId(n) # NoId)]

\* onDidCollapseElement
CollapseEvent(n) ==
  /\ HostEvent
  /\ n \in Visible
  /\ IF ItemId(n) # NoId
     THEN SetExpanded(WithoutCollapsed(expandedItemIds, n))
     ELSE UNCHANGED <<expandedItemIds, workspaceState, eEpoch>>
  /\ UNCHANGED <<treeVars, lastRevealedItemId, buildVars, restoreVars, scrollVars,
                 envVars>>
  /\ out' = [NoOut EXCEPT !.call = Called("collapse", n, ItemId(n) # NoId)]

\* if (!this.restoringScrollPosition && ev.selection.length > 0 && ev.selection[0].id)
SelectionSavedUnguarded(n) == ItemId(n) # NoId
SelectionSaved(n) == ~restoringScrollPosition /\ ItemId(n) # NoId

\* onDidChangeSelection with selection[0] = n.
SelectionEvent(n) ==
  /\ HostEvent
  /\ n \in Visible
  /\ IF SelectionSaved(n)
     THEN /\ lastRevealedItemId' = ItemId(n)
          /\ workspaceState' = [workspaceState EXCEPT !.last = ItemId(n)]
     ELSE UNCHANGED <<lastRevealedItemId, workspaceState>>
  /\ UNCHANGED <<treeVars, expandedItemIds, eEpoch, buildVars, restoreVars, scrollVars,
                 envVars>>
  /\ out' = [NoOut EXCEPT !.call = Called("selection", n, SelectionSaved(n))]

\* ------------------------------------------------------------ selectFile()
\* A command of the host: it needs no tree view.
HostCommand ==
  /\ hostEvents < MaxHostEvents
  /\ hostEvents' = hostEvents + 1

\* selectTreeItem(element)
SelectTreeItem(element) ==
  IF treeView THEN <<Reveal(element, TRUE, TRUE)>> ELSE <<>>

\* One turn of the loop: getItem(i).search(path) and what follows its result,
\* up to the next getItem(i + 1).search(path).
SearchRoot(i, path) ==
  \E fail \in {{}, {GetItem(children, i)} \ loaded} :
     LET root == GetItem(children, i)
         r == Search(root, path, loaded, fail, world)
         more == ~r.threw /\ r.found = NoItem /\ i + 1 < Length(children)
     IN  /\ out' = [NoOut EXCEPT
                !.call = Called("selectFile", root, TRUE),
                !.lookups = <<Looked("search", path, r)>>,
                !.reveals = IF r.found # NoItem THEN SelectTreeItem(r.found) ELSE <<>>]
         /\ loaded' = r.ld
         /\ sel' = IF more THEN [pc |-> "next", i |-> i + 1, path |-> path] ELSE NoSel

\* selectFile(path) up to the result of the first search.
SelectFile(path) ==
  /\ HostCommand
  /\ sel.pc = "idle"
  /\ IF HasChildren(children) /\ 0 < Length(children)
     THEN SearchRoot(0, path)
     ELSE /\ out' = [NoOut EXCEPT !.call = Called("selectFile", NoItem, FALSE)]
          /\ UNCHANGED <<loaded, sel>>
  /\ UNCHANGED <<children, collapsibleState, expVars, buildVars, restoreVars, scrollVars,
                 world, treeView, hostFaults, lookup, hasWorkspaceRoots>>

\* The loop goes on with the root at sel.i of the collection as it is now.
SelectNext ==
  /\ sel.pc = "next"
  /\ IF sel.i < Length(children)
     THEN SearchRoot(sel.i, sel.path)
     ELSE /\ out' = [NoOut EXCEPT !.call = Called("selectFile", NoItem, FALSE)]
          /\ sel' = NoSel
          /\ UNCHANGED loaded
  /\ UNCHANGED <<children, collapsibleState, expVars, buildVars, restoreVars, scrollVars,
                 world, treeView, hostFaults, lookup, hasWorkspaceRoots, hostEvents>>

Next ==
  \/ GetChildrenNoRoots
  \/ GetChildrenRoot
  \/ GetChildrenBuilt
  \/ \E b \in Passes : BuildEnumerated(b)
  \/ \E b \in Passes : BuildAdd(b)
  \/ \E b \in Passes : TimerFire(b)
  \/ \E b \in Passes : SessionStep(b)
  \/ \E b \in Passes : SessionValidate(b)
  \/ \E b \in Passes : SessionHide(b)
  \/ ScrollLookup
  \/ ScrollRevealed
  \/ VisibilityEvent
  \/ SolutionEvent
  \/ FileEvent
  \/ RefreshAll
  \/ \E n \in Instances : RefreshItem(n)
  \/ Unregister
  \/ \E n \in Instances : GetChildrenOf(n)
  \/ \E n \in Instances : ExpandEvent(n)
  \/ \E n \in Instances : CollapseEvent(n)
  \/ \E n \in Instances : SelectionEvent(n)
  \/ \E path \in FilePaths : SelectFile(path)
  \/ SelectNext

\* ------------------------------------------------ the collection by itself
\* A collection over any solution, driven by its own operations.
InitColl ==
  /\ InitCommon
  /\ world \in Worlds
  /\ collapsibleState = [n \in Instances |-> DefaultState(KeyOf(n), world)]
  /\ workspaceState = [expanded |-> {}, last |-> NoId]
  /\ expandedItemIds = {}
  /\ treeView = FALSE
  /\ hostFaults = FALSE
  /\ hasWorkspaceRoots = TRUE

CollFrame ==
  /\ hostEvents < MaxCollOps
  /\ hostEvents' = hostEvents + 1
  /\ UNCHANGED <<collapsibleState, expVars, buildVars, restoreVars, scrollVars, world,
                 treeView, hostFaults, hasWorkspaceRoots, sel, out>>

\* addSolution for a root of the solution not added yet.
CollAddSolution(k) ==
  /\ k \in world
  /\ ParentOf(k) = NoId
  /\ \A i \in DOMAIN children.list : children.list[i] # <<1, k>>
  /\ children' = AddSolution(children, <<1, k>>)
  /\ UNCHANGED <<loaded, lookup>>
  /\ CollFrame

\* reset(): the items are dropped with the list.
CollReset ==
  /\ children' = Reset(children)
  /\ loaded' = {}
  /\ UNCHANGED lookup
  /\ CollFrame

\* getChildren() of an item the collection holds.
CollGetChildren(n) ==
  /\ n \in Visible
  /\ \E fail \in {{}, {n}} : loaded' = GetChildren(n, loaded, fail, world).ld
  /\ UNCHANGED <<children, lookup>>
  /\ CollFrame

CollFindClosest(id) ==
  /\ \E fail \in FailSets :
       LET r == FindClosestParentByIdPrefix(children, id, loaded, fail, world)
       IN  /\ loaded' = r.ld
           /\ lookup' = [op |-> "closest", id |-> id, roots |-> children.list,
                         found |-> r.found, threw |-> r.threw, visited |-> <<>>]
  /\ UNCHANGED children
  /\ CollFrame

CollFindAndExpand(id) ==
  /\ \E fail \in FailSets :
       LET r == FindAndExpandTreeItemById(children, id, loaded, fail, world)
       IN  /\ loaded' = r.ld
           /\ lookup' = [op |-> "expand", id |-> id, roots |-> children.list,
                         found |-> r.found, threw |-> r.threw, visited |-> r.visited]
  /\ UNCHANGED children
  /\ CollFrame

CollGetLoaded(id) ==
  /\ lookup' = [op |-> "loaded", id |-> id, roots |-> children.list,
                found |-> GetLoadedChildTreeItemById(children, id, loaded, world),
                threw |-> FALSE, visited |-> <<>>]
  /\ UNCHANGED <<children, loaded>>
  /\ CollFrame

NextColl ==
  \/ \E k \in Keys : CollAddSolution(k)
  \/ CollReset
  \/ \E n \in Instances : CollGetChildren(n)
  \/ \E id \in QueryIds : CollFindClosest(id)
  \/ \E id \in QueryIds : CollFindAndExpand(id)
  \/ \E id \in QueryIds : CollGetLoaded(id)

SpecColl == InitColl /\ [][NextColl]_vars

\* The provider over a cyclic tree, a subset of whose ids was expanded when
\* the state was stored; no focus is stored and no host event is delivered.
InitDeep ==
  /\ InitCommon
  /\ world = LoopWorld
  /\ collapsibleState = [n \in Instances |-> DefaultState(KeyOf(n), LoopWorld)]
  /\ workspaceState \in {[expanded |-> e, last |-> NoId] : e \in SUBSET {A, Back, Z}}
  /\ expandedItemIds = workspaceState.expanded
  /\ treeView = TRUE
  /\ hasWorkspaceRoots = TRUE
  /\ hostFaults = FALSE

NextDeep ==
  \/ GetChildrenRoot
  \/ GetChildrenBuilt
  \/ \E b \in Passes : BuildEnumerated(b)
  \/ \E b \in Passes : BuildAdd(b)
  \/ \E b \in Passes : TimerFire(b)
  \/ \E b \in Passes : SessionStep(b)
  \/ \E b \in Passes : SessionValidate(b)
  \/ \E b \in Passes : SessionHide(b)

SpecDeep == InitDeep /\ [][NextDeep]_vars

\* The provider with a status bar that never throws.
Spec == Init /\ [][Next]_vars

\* The provider with a status bar whose show() / hide() may throw.
SpecHostFaults == InitHostFaults /\ [][Next]_vars

\* ------------------------------------------------------------- properties
\* The id of n and the ids of all its ancestors are in expandedItemIds.
RECURSIVE KeyChainInE(_)
KeyChainInE(k) ==
  /\ IdOf(k) # NoId
  /\ IdOf(k) \in expandedItemIds
  /\ ParentOf(k) = NoId \/ KeyChainInE(ParentOf(k))
ChainInE(n) == KeyChainInE(KeyOf(n))

\* The collection holds the roots pass b built.
RootsOf(b) ==
  /\ children.built
  /\ children.list # <<>>
  /\ \A i \in DOMAIN children.list : children.list[i][1] = b

\* Pass b scheduled a session of its own, the session has settled, the
\* expanded-id set was recorded before the pass began and has not changed
\* since, and the tree the pass built is still the current one.
RestoredBy(b) ==
  /\ req[b].how = "own"
  /\ b \in Ended
  /\ eEpoch < b
  /\ RootsOf(b)

\* C1 -- session mutual exclusion: at most one restore session is active and
\* it is the one holding loaderActivePromise; a request made while a session
\* is active starts no session of its own and completes only when that
\* session has completed.
C1_SessionMutualExclusion ==
  /\ Cardinality(Running) <= 1
  /\ \A b \in Running : loaderActivePromise = b
  /\ \A b \in Passes : req[b].how = "joined" =>
        /\ sess[b].pc = "none"
        /\ req[b].st = "waiting" => req[b].on \in Running
        /\ req[b].st = "done" => req[b].on \in Ended

C1_Witness ==
  \E b \in Passes : req[b].how = "joined" /\ req[b].st = "waiting" /\ req[b].on \in Running

\* C2 -- single-flight build: at no time are two build passes in flight, the
\* pass in flight is the one _initPromise holds, and a root-level
\* getChildren() issued while a pass is in flight starts no other pass (no
\* further enumeration) but awaits that one.
C2_SingleFlightBuild ==
  /\ [](/\ Cardinality(InFlight) <= 1
        /\ \A b \in InFlight : initPromise = b
        /\ awaiting > 0 => InFlight # {})
  /\ [][InFlight # {} /\ awaiting' > awaiting => Started' = Started]_vars

C2_Witness == awaiting >= 2 /\ InFlight # {} /\ ~children.built

C4_DefaultKept ==
  /\ [](\A b \in Passes : RestoredBy(b) =>
          \A n \in Visible : ItemId(n) \notin expandedItemIds =>
             collapsibleState[n] = DefaultState(KeyOf(n), world))
  /\ [][\A n \in Instances : collapsibleState'[n] # collapsibleState[n] =>
          \/ collapsibleState'[n] = "expanded" /\ ItemId(n) \in expandedItemIds
          \/ n[1] \notin LivePasses(children', sess', scroll')]_vars

C4_Witness ==
  \E b \in Passes :
     /\ RestoredBy(b)
     /\ \E n \in Visible : collapsibleState[n] = "expanded"
     /\ \E n \in Visible : ItemId(n) \notin expandedItemIds
                           /\ collapsibleState[n] = "collapsed"

\* C5 -- bounded traversal (amended): during the expansion phase of a session
\* getChildren is invoked only on nodes whose id and whose ancestors' ids
\* are all in E; focus restoration is not so bounded.
C5_ExpansionBounded ==
  \A b \in Running : eEpoch < b =>
     \A t \in sess[b].touched : t[1] = "expand" => ChainInE(t[2])

C5_Witness ==
  \E b \in Running : eEpoch < b /\
     \E t \in sess[b].touched : t[1] = "expand" /\ ParentOf(KeyOf(t[2])) # NoId

\* C5 as stated: expansion, validation and focus restoration included.
C5_AsStated ==
  \A b \in Running : eEpoch < b =>
     \A t \in sess[b].touched : ChainInE(t[2])

\* C6 as stated: a session that has ended no longer holds the lock, even
\* when showing or hiding the indicator failed.
C6_LockReleased ==
  \A b \in Ended : loaderActivePromise # b

\* C7 as stated: a request that found a session running does not complete
\* without a session of its own having run for its tree.
C7_OwnSessionAfterwards ==
  \A b \in Passes : req[b].st = "done" /\ req[b].how = "joined" => sess[b].pc # "none"

\* C8 -- stale-tree tolerance: a session during which the collection was
\* reset raises no error, is never left without a next step (a batch item to
\* process, or the focus restoration it awaits), ends resolved and releases
\* its lock.
C8_StaleTreeTolerated ==
  \A b \in Passes : sess[b].wasReset =>
     /\ ~sess[b].err
     /\ sess[b].pc # "rejected"
     /\ sess[b].pc = "resolved" => loaderActivePromise # b
     /\ sess[b].pc = "expand" => sess[b].batch # <<>>
     /\ sess[b].pc = "scroll" =>
           scroll.pc # "idle" /\ scroll.owner = [kind |-> "session", b |-> b]

C8_Witness ==
  \E b \in Passes : sess[b].wasReset /\ sess[b].pc = "resolved" /\ ~children.built

\* C9 -- prefix fallback: whenever findClosestParentByIdPrefix(id) returns on
\* a built tree, it returns a node whose id is a non-empty prefix of id than
\* which no node's id is a longer prefix of id, and it returns absent
\* exactly when no node's id is a prefix of id.
C9_PrefixFallback ==
  lookup.op = "closest" /\ ~lookup.threw /\ lookup.roots # <<>> =>
     LET P == {n \in AllItems(lookup.roots, world) :
                 ItemId(n) # NoId /\ StartsWith(lookup.id, ItemId(n))}
     IN  IF P = {} THEN lookup.found = NoItem
         ELSE /\ lookup.found \in P
              /\ \A m \in P : Len(ItemId(m)) <= Len(ItemId(lookup.found))

C9_Witness ==
  /\ lookup.op = "closest" /\ ~lookup.threw
  /\ lookup.id = ABC
  /\ {AB, AX} \subseteq world /\ ABC \notin world
  /\ lookup.found = <<1, AB>>

\* C10 -- idempotent reset: from any state of the collection reset() leaves
\* hasChildren false, length 0 and items empty, and a second reset() changes
\* nothing.
C10_ResetIdempotent ==
  LET r == Reset(children)
  IN  /\ ~HasChildren(r)
      /\ Length(r) = 0
      /\ Items(r) = <<>>
      /\ Reset(r) = r

C10_Witness ==
  /\ children = Reset(children)
  /\ \E b \in Passes : build[b].pc = "add" /\ build[b].i > 0

\* C11 -- only the unbuilt state triggers a rebuild: a build pass starts only
\* in a root-level getChildren(), and such a call starts one if and only if
\* the collection is unbuilt, no pass is in flight and the workspace has
\* roots; on a built collection it returns the current roots and starts no
\* enumeration.
C11_RebuildTrigger ==
  [][/\ Started' # Started => out'.answer.how = "started"
     /\ out'.answer.how \in {"started", "joined", "built", "noRoots"} =>
          /\ (Started' # Started) <=>
                (~children.built /\ InFlight = {} /\ hasWorkspaceRoots)
          /\ children.built /\ hasWorkspaceRoots =>
                /\ out'.answer.how = "built"
                /\ out'.answer.items = children.list
                /\ build' = build /\ initPromise' = initPromise]_vars

C11_Witness ==
  /\ out.answer.how = "built"
  /\ out.answer.items # <<>>
  /\ out.answer.items = children.list
  /\ InFlight = {}

\* C12 -- refresh(node?): without a node the collection is unbuilt afterwards
\* (so no root-level getChildren() can be answered from roots built before);
\* with a node the collection is left as it was; either way exactly one
\* change notification is fired, carrying the node (or nothing for
\* "everything").
C12_Refresh ==
  [][out'.call.op = "refresh" =>
       /\ out'.fired = <<out'.call.item>>
       /\ IF out'.call.item = NoItem
          THEN ~HasChildren(children') /\ Items(children') = <<>>
          ELSE children' = children
       /\ UNCHANGED <<initPromise, build>>]_vars

C12_Witness ==
  /\ out.call.op = "refresh"
  /\ out.call.item # NoItem
  /\ out.fired = <<out.call.item>>
  /\ children.built

\* C13 -- event filtering: a solution event always resets the collection and
\* fires one change notification; a file event does so only when
\* isWorkspaceSolutionFile(path) holds, and otherwise leaves the collection,
\* _initPromise and the notification channel untouched.
C13_EventFiltering ==
  [][/\ out'.call.op = "solutionEvent" =>
          ~HasChildren(children') /\ out'.fired = <<NoItem>>
     /\ out'.call.op = "fileEvent" =>
          IF out'.call.flag
          THEN ~HasChildren(children') /\ out'.fired = <<NoItem>>
          ELSE /\ children' = children
               /\ initPromise' = initPromise
               /\ out'.fired = <<>>]_vars

C13_Witness ==
  /\ out.call.op = "fileEvent"
  /\ ~out.call.flag
  /\ out.fired = <<>>
  /\ children.built
  /\ hostEvents = MaxHostEvents

C15_FocusSaveGuard ==
  [][/\ restoringScrollPosition =>
          /\ lastRevealedItemId' = lastRevealedItemId
          /\ workspaceState'.last = workspaceState.last
     /\ out'.call.op = "selection" /\ restoringScrollPosition => ~out'.call.flag
     /\ restoringScrollPosition' <=> scroll'.pc # "idle"
     /\ scroll.pc # "idle" /\ scroll'.pc = "idle" => ~restoringScrollPosition']_vars

\* A selection of another item arrived during a restoration and was not saved.
C15_Witness ==
  /\ out.call.op = "selection"
  /\ restoringScrollPosition
  /\ ~out.call.flag
  /\ ItemId(out.call.item) # NoId
  /\ lastRevealedItemId # ItemId(out.call.item)
  /\ workspaceState.last # ItemId(out.call.item)

Pending(s) == s.batch \o s.queue \o s.next

\* C16 as stated: when a getChildren() of a queued item fails, none of the
\* item's descendants is enqueued.
C16_AsStated ==
  [][out'.call.op = "expandItem"
       /\ (\E i \in 1..Len(out'.lookups) : out'.lookups[i].threw)
     => Pending(sess'[out'.by]) = Tail(Pending(sess[out'.by]))]_vars

\* C16 amended: when the getChildren() whose result the session enqueues
\* fails, none of the item's descendants is enqueued, every other queued
\* item stays queued in order, the session raises no error and goes on with
\* the next item or, the queue being empty, with validation; a session in
\* which a getChildren() failed does not end rejected for it.
C16_MaterializationFailure ==
  [][/\ out'.call.op = "expandItem" =>
          LET b == out'.by
              ls == out'.lookups
              failed == ls # <<>> /\ ls[Len(ls)].threw
          IN  /\ sess[b].pc = "expand" /\ out'.call.item = Head(sess[b].batch)
              /\ failed => Pending(sess'[b]) = Tail(Pending(sess[b]))
              /\ ~sess'[b].err
              /\ sess'[b].pc = IF Pending(sess'[b]) = <<>> THEN "validate" ELSE "expand"
              /\ sess'[b].pc = "expand" => sess'[b].batch # <<>>
     /\ \A b \in Passes : sess'[b].gcFailed /\ ~hostFaults =>
          sess'[b].pc \in {"expand", "validate", "scroll", "hide", "resolved"}]_vars

\* A session in which a getChildren() failed expanded another item as well
\* and has passed validation and focus restoration without error.
C16_Witness ==
  \E b \in Passes :
     /\ sess[b].gcFailed
     /\ sess[b].pc = "hide" /\ ~sess[b].err
     /\ \E t, u \in sess[b].touched : t[1] = "expand" /\ u[1] = "expand" /\ t # u

\* C17 as stated: a build pass in which addSolution failed for one
\* descriptor has still gone through every other descriptor of its
\* enumeration: it does not end with descriptors it never tried to add.
C17_LoadFailureIsolated ==
  \A b \in Passes :
     build[b].pc \in {"done", "failed"} /\ build[b].paths # <<>> =>
        build[b].i + 1 >= Len(build[b].paths)

\* C18 -- a build pass that fails, in the enumeration or in an addSolution,
\* rejects the promise every awaiting root-level getChildren() caller holds,
\* and clears _initPromise: no pass is in flight any more, and the next
\* root-level getChildren() on the unbuilt collection starts a new pass.
C18_BuildFailurePropagates ==
  [][/\ \A b \in Passes : build[b].pc # "failed" /\ build'[b].pc = "failed" =>
          /\ out'.answer = [how |-> "rejected", pass |-> b, items |-> <<>>]
          /\ out'.callers = awaiting /\ awaiting >= 1
          /\ awaiting' = 0
          /\ initPromise = b /\ initPromise' = 0
          /\ InFlight' = {}
     /\ out'.answer.how = "rejected" => build'[out'.answer.pass].pc = "failed"
     /\ out'.answer.how = "started" => initPromise = 0 /\ initPromise' = out'.answer.pass
     /\ out'.answer.how = "joined" => initPromise # 0 /\ initPromise \in InFlight]_vars

\* After a pass failed with two callers awaiting it, a root-level
\* getChildren() on the unbuilt collection started the next pass.
C18_Witness ==
  /\ build[1].pc = "failed"
  /\ out.answer.how = "started" /\ out.answer.pass = 2
  /\ ~children.built

\* The first item of the subtree of root, in depth-first order, that stands
\* for path.
RECURSIVE FirstOf(_, _)
FirstOf(items, path) ==
  IF items = <<>> THEN NoItem
  ELSE IF PathOf(Head(items)[2]) = path THEN Head(items)
  ELSE FirstOf(Tail(items), path)

\* What one turn of selectFile's loop does on the root it searches; the
\* reveal needs a tree view or not.
SelectTurn(inView) ==
  LET root == out'.call.item
      l == out'.lookups[1]
  IN  /\ Len(out'.lookups) = 1 /\ l.op = "search"
      /\ ~l.threw => l.found = FirstOf(DepthFirst(<<root>>, world), l.id)
      /\ out'.reveals = IF l.found # NoItem /\ (inView => treeView)
                        THEN <<Reveal(l.found, TRUE, TRUE)>> ELSE <<>>
      /\ Len(out'.reveals) <= 1
      /\ sel'.pc = "next" =>
           /\ l.found = NoItem /\ out'.reveals = <<>>
           /\ sel'.path = l.id
           /\ sel'.i < Len(children.list) /\ children.list[sel'.i] = root
      /\ sel.pc = "idle" => root = children.list[1]
      /\ sel.pc = "next" => root = children.list[sel.i + 1] /\ l.id = sel.path

\* selectFile does nothing on an unbuilt collection.
SelectNothing ==
  out'.call.op = "selectFile" /\ ~children.built =>
     /\ out'.reveals = <<>> /\ out'.lookups = <<>>
     /\ loaded' = loaded /\ children' = children
     /\ sel' = NoSel

\* C20 as stated: selectFile does nothing on an unbuilt collection;
\* otherwise it searches the roots in collection order and reveals, with
\* select = true, the depth-first first hit of the first root that has one.
C20_AsStated ==
  [][/\ SelectNothing
     /\ out'.call.op = "selectFile" /\ out'.call.flag => SelectTurn(FALSE)]_vars

\* C20 amended: the same, the reveal being issued while the tree view is
\* registered; without a tree view the hit ends the search with no reveal.
C20_SelectFile ==
  [][/\ SelectNothing
     /\ out'.call.op = "selectFile" /\ out'.call.flag => SelectTurn(TRUE)]_vars

\* The first root holds two items standing for the file, the deeper one
\* first in depth-first order, and the second root stands for it as well:
\* the deeper item of the first root was revealed and the search ended.
C20_Witness ==
  /\ out.call.op = "selectFile"
  /\ Len(children.list) = 2 /\ out.call.item = children.list[1]
  /\ out.lookups[1].id = F
  /\ out.reveals = <<Reveal(<<out.call.item[1], ABC>>, TRUE, TRUE)>>
  /\ sel = NoSel

\* The items under kids that exist as objects, in depth-first order, an item
\* before its children.
RECURSIVE PreOrderLoaded(_, _, _)
PreOrderLoaded(kids, ld, w) ==
  IF kids = <<>> THEN <<>>
  ELSE <<Head(kids)>>
       \o (IF Head(kids) \in ld THEN PreOrderLoaded(KidsOf(Head(kids), w), ld, w) ELSE <<>>)
       \o PreOrderLoaded(Tail(kids), ld, w)

\* The first item of a sequence with the id, or absent.
RECURSIVE FirstWithId(_, _)
FirstWithId(items, id) ==
  IF items = <<>> THEN NoItem
  ELSE IF ItemId(Head(items)) = id THEN Head(items)
  ELSE FirstWithId(Tail(items), id)

\* C21 -- getLoadedChildTreeItemById(id) triggers no lazy loading: it
\* materializes no children list and changes no list of roots; it returns
\* the first item with the id in depth-first pre-order over the items
\* already materialized, or absent, and absent on an unbuilt collection.
C21_LoadedLookupIsPure ==
  [][lookup'.op = "loaded" /\ lookup' # lookup =>
       /\ loaded' = loaded /\ children' = children
       /\ collapsibleState' = collapsibleState
       /\ ~lookup'.threw
       /\ lookup'.found =
            FirstWithId(PreOrderLoaded(children.list, loaded, world), lookup'.id)
       /\ ~children.built => lookup'.found = NoItem]_vars

\* The id belongs to an item whose parent's children are not materialized:
\* the lookup answered absent and materialized nothing.
C21_Witness ==
  /\ lookup.op = "loaded" /\ lookup.found = NoItem
  /\ \E n \in AllItems(children.list, world) \ LoadedItems(children.list, loaded, world) :
        ItemId(n) = lookup.id
  /\ \E n \in LoadedItems(children.list, loaded, world) : n \notin SeqItems(children.list)

\* The ids of the items of a sequence up to and including item, of all of
\* them when item is not among them.
RECURSIVE IdsUpTo(_, _)
IdsUpTo(items, item) ==
  IF items = <<>> THEN <<>>
  ELSE IF Head(items) = item THEN <<ItemId(item)>>
  ELSE <<ItemId(Head(items))>> \o IdsUpTo(Tail(items), item)

\* C22 -- findAndExpandTreeItemById(id), when it returns, returns the first
\* item with the id in depth-first pre-order of the fully materialized tree,
\* and its visited record is the pre-order sequence of ids up to and
\* including the returned item, the whole tree's when it returns absent.
C22_FindAndExpand ==
  lookup.op = "expand" /\ ~lookup.threw =>
     LET all == DepthFirst(lookup.roots, world)
     IN  /\ lookup.found = FirstWithId(all, lookup.id)
         /\ lookup.visited = IdsUpTo(all, lookup.found)

\* The item was found below the first root after an item without an id and
\* with a second root never visited.
C22_Witness ==
  /\ lookup.op = "expand" /\ ~lookup.threw
  /\ Len(lookup.roots) = 2
  /\ lookup.found # NoItem /\ lookup.found \notin SeqItems(lookup.roots)
  /\ \E i \in DOMAIN lookup.visited : lookup.visited[i] = NoId
  /\ Len(lookup.visited) < Len(DepthFirst(lookup.roots, world))

\* C23 as stated: a root-level getChildren() issued while a build pass is in
\* flight joins that pass, and what a pass resolves its callers with is its
\* complete list of roots: no call is answered with the roots added so far.
C23_AwaitsWholePass ==
  [][/\ out'.answer.how \in {"started", "joined", "built"} /\ InFlight # {} =>
          /\ out'.answer.how = "joined"
          /\ out'.answer.pass = initPromise
          /\ initPromise \in InFlight
     /\ out'.answer.how = "built" => InFlight = {}]_vars

\* The passes whose findSolutions() has returned, and the roots the latest
\* of them was to create, in enumeration order.
Enumerated ==
  {b \in Passes : \/ build[b].pc \in {"add", "done"}
                  \/ build[b].pc = "failed" /\ build[b].paths # <<>>}
LatestEnumerated == CHOOSE b \in Enumerated : \A c \in Enumerated : c <= b
EnumeratedRoots(b) == [i \in 1..Len(build[b].paths) |-> <<b, build[b].paths[i]>>]

\* C24 as stated: whenever the Collection is built and no build pass is in
\* flight, its roots are the nodes of the descriptors of the most recent
\* enumeration, in enumeration order, whatever events interleaved.
C24_RootsMatchEnumeration ==
  children.built /\ InFlight = {} /\ Enumerated # {} =>
     children.list = EnumeratedRoots(LatestEnumerated)

\* C25 as stated: when a build pass resolves with every root of its
\* enumeration (no error, no reset in between), the Collection is built, so
\* that the next root-level getChildren() is answered from the list; this
\* holds also for an enumeration that returned no sources.
C25_BuiltAfterPass ==
  [][out'.answer.how = "resolved" =>
       LET b == out'.answer.pass
           all == [i \in 1..Len(build'[b].paths) |-> <<b, build'[b].paths[i]>>]
       IN  out'.answer.items = all => HasChildren(children')]_vars

\* One step of the session of pass b keeps the order of the phases.
PhaseStep(b) ==
  LET s == sess[b]
      t == sess'[b]
  IN  /\ s.pc = "none" /\ t.pc # "none" =>
           /\ ~LoaderBusy /\ loaderActivePromise' = b
           /\ t.pc \in {"expand", "validate"}
           /\ t.batch \o t.queue = Items(children)
           /\ t.pc = "validate" <=> Items(children) = <<>>
      /\ s.pc = "expand" =>
           /\ t.pc \in {"expand", "validate"}
           /\ t.pc = "validate" <=> t.batch \o t.queue \o t.next = <<>>
           /\ t.pc = "expand" => t.batch # <<>>
      /\ s.pc = "validate" =>
           /\ t.pc \in {"validate", "scroll", "hide"}
           /\ t.pc = "scroll" =>
                restoringScrollPosition' /\ scroll'.owner = [kind |-> "session", b |-> b]
      /\ s.pc = "scroll" =>
           /\ t.pc \in {"scroll", "hide"}
           /\ scroll.owner = [kind |-> "session", b |-> b]
           /\ t.pc = "hide" => scroll' = NoScroll /\ ~restoringScrollPosition'
      /\ s.pc = "hide" => t.pc \in {"hide", "resolved"}
      /\ s.pc \in {"resolved", "rejected"} => t.pc = s.pc
      /\ t.pc \in {"expand", "validate", "scroll", "hide"} => loaderActivePromise' = b
      /\ loaderActivePromise = b /\ loaderActivePromise' # b =>
           s.pc = "hide" /\ t.pc = "resolved" /\ loaderActivePromise' = 0

\* C26: a restore session shows the indicator and takes the lock, seeds the
\* queue with the current roots, processes batches until the queue is
\* empty, then validates, then restores the focus, then hides the indicator
\* and only then releases the lock; no phase starts before the previous one
\* has finished.
C26_PhaseOrder == [][\A b \in Passes : PhaseStep(b)]_vars
C26_Witness ==
  \E b \in Passes :
     /\ sess[b].pc = "hide" /\ ~sess[b].err /\ loaderActivePromise = b
     /\ \E n \in Instances : <<"expand", n>> \in sess[b].touched
     /\ \E n \in Instances : <<"focus", n>> \in sess[b].touched

\* if (depth > 10) return
DEPTH_CAP == 10

\* C27 as stated: the expansion traversal never processes a node more than
\* the cap (10 levels) below the roots, also in a cyclic tree whose ids are
\* in the expanded-id set.
C27_DepthCap ==
  [][\A b \in Passes :
        out'.call.op = "expandItem" /\ out'.by = b => sess[b].level <= DEPTH_CAP]_vars

\* C28: a restore session leaves the expansion state as it found it: a step
\* that changes expandedItemIds or the persisted expanded ids is an expand or
\* collapse event of the host, a step that changes lastRevealedItemId or the
\* persisted focus id is a selection event, and no step of a session (an
\* expanded item, the validation, the focus restoration, the hiding of the
\* indicator) changes any of them.
C28_SessionKeepsState ==
  [][/\ (expandedItemIds' # expandedItemIds
            \/ workspaceState'.expanded # workspaceState.expanded)
          => out'.call.op \in {"expand", "collapse"}
     /\ (lastRevealedItemId' # lastRevealedItemId
            \/ workspaceState'.last # workspaceState.last)
          => out'.call.op = "selection"
     /\ (\E b \in Passes : sess'[b] # sess[b]) \/ scroll' # scroll
          => UNCHANGED <<expandedItemIds, lastRevealedItemId, workspaceState>>]_vars
C28_Witness ==
  \E b \in Passes :
     /\ sess[b].pc = "resolved"
     /\ hostEvents = 0
     /\ expandedItemIds = {A, AB, Z}
     /\ workspaceState = [expanded |-> {A, AB, Z}, last |-> NoId]
     /\ \E n \in Instances : n[1] = b /\ collapsibleState[n] = "expanded"

\* C29: an expand event for node n adds n's id to expandedItemIds and
\* nothing else, a collapse event removes n's id and nothing else (the ids
\* of n's descendants stay), and an event for a node without an id changes
\* nothing.
C29_OneIdPerEvent ==
  [][LET n == out'.call.item
         id == ItemId(n)
     IN  /\ out'.call.op = "expand" =>
              expandedItemIds' = IF id = NoId THEN expandedItemIds
                                 ELSE expandedItemIds \cup {id}
         /\ out'.call.op = "collapse" =>
              /\ expandedItemIds' = IF id = NoId THEN expandedItemIds
                                    ELSE expandedItemIds \ {id}
              /\ \A k \in Keys : ParentOf(k) = KeyOf(n) /\ IdOf(k) \in expandedItemIds
                                    => IdOf(k) \in expandedItemIds'
         /\ out'.call.op \in {"expand", "collapse"} /\ id = NoId =>
              UNCHANGED <<expandedItemIds, workspaceState>>]_vars
\* a was collapsed while a/b was in the set: a/b stays without its ancestor.
C29_Witness ==
  /\ out.call.op = "collapse"
  /\ KeyOf(out.call.item) = A
  /\ AB \in expandedItemIds
  /\ A \notin expandedItemIds
\* An event for the node without id was delivered.
C29_WitnessNoId ==
  /\ out.call.op \in {"expand", "collapse"}
  /\ KeyOf(out.call.item) = AQ
  /\ expandedItemIds # {}

\* The step calls restoreScrollPosition(): from the tree-view-visible event,
\* from the empty-expanded-set path of pass b, or from the session of b.
CallsRestoreScrollPosition ==
  \/ out'.call.op = "visible"
  \/ \E b \in Passes : req[b].st = "timer" /\ req'[b].how = "direct"
  \/ \E b \in Passes :
        sess[b].pc = "validate" /\ sess'[b].pc \in {"scroll", "hide"} /\ ~sess'[b].err

\* C30: a restoreScrollPosition call made while another one is in progress
\* returns at once: it makes no lookup and no reveal, leaves the running
\* restoration where it is and leaves its restoringScrollPosition flag set.
C30_OneFocusRestoration ==
  [][restoringScrollPosition /\ CallsRestoreScrollPosition =>
       /\ restoringScrollPosition'
       /\ scroll' = scroll
       /\ scroll.pc \in {"delay", "reveal"}
       /\ loaded' = loaded
       /\ out'.lookups = <<>> /\ out'.reveals = <<>>
       /\ \A b \in Passes : sess'[b].pc # "scroll" \/ sess[b].pc = "scroll"]_vars
C30_Witness ==
  /\ out.call.op = "visible" /\ out.call.flag
  /\ restoringScrollPosition
  /\ scroll.pc = "delay"
  /\ scroll.owner.kind = "session"
\* The session's own call was the refused one.
C30_WitnessSession ==
  \E b \in Passes :
     /\ sess[b].pc = "hide" /\ ~sess[b].err
     /\ restoringScrollPosition
     /\ scroll.owner.kind = "vis"

====
